---- MODULE Spec2Model ----
(***************************************************************************)
(* The xv6 physical page allocator with per-page reference counts          *)
(* (xv6-proj3/kalloc.c), as a state machine.                               *)
(*                                                                         *)
(* The allocator's operations are pure operators on a machine record       *)
(*   [kmem, pmem, mem, panicked, ret, refreed]                             *)
(* (struct kmem, struct pmem, the page frames, the panic state, the value  *)
(* returned by the last call, and one ghost flag).  In Spec and SpecAny    *)
(* each action is one whole call made by the rest of the kernel; in        *)
(* SpecConc and SpecLive the boot calls are followed by several contexts   *)
(* whose calls interleave, one access to shared memory per step.           *)
(*                                                                         *)
(* The address space is scaled down: a uint has UintRange values instead   *)
(* of 2^32, a page has PGSIZE = 2 bytes instead of 4096, KERNBASE is half  *)
(* the address space as in xv6 (0x80000000), PHYSTOP lies below KERNBASE   *)
(* as in xv6 (0xE000000), and the linker symbol end is not page aligned.   *)
(***************************************************************************)
EXTENDS Integers, Sequences, FiniteSets, TLC

\* ------------------------------------------------------------ constants

UintRange == 32                 \* number of values of a uint (scaled 2^32)
PGSHIFT == 1                    \* log2 of the page size (scaled 12)
PGSIZE == 2 ^ PGSHIFT           \* bytes per page
KERNBASE == 16                  \* first kernel virtual address
PHYSTOP == 8                    \* top of physical memory
end == 17                       \* first address after the kernel image
NULL == 0                       \* the null pointer

\* bounds of the model (not program constants)
MaxRef == 2                     \* inc_refcount is called while count < MaxRef,
                                \* at most MaxRef - 1 times on a followed page
MaxCount == 3                   \* |num_free_pages| stays within MaxCount
NCPU == 2                       \* execution contexts (param.h has 8)

V2P(a) == (a - KERNBASE) % UintRange
P2V(a) == (a + KERNBASE) % UintRange
PGROUNDUP(sz) == ((sz + PGSIZE - 1) \div PGSIZE) * PGSIZE

\* The word read from a page whose every byte is c (a pointer-sized read of
\* c c c c): 0 for c = 0, and for c # 0 a value that is no page address.
WordOf(c) == c * 5

\* Page frames the model gives contents to: the direct-mapped window.
Frames == { a \in KERNBASE .. (KERNBASE + PHYSTOP - 1) : a % PGSIZE = 0 }
\* Indexes of pmem.refcount.
RefIdx == 0 .. ((PHYSTOP \div PGSIZE) - 1)

\* ------------------------------------------------------------ state

VARIABLES
  kmem,       \* [lock, use_lock, freelist]            (struct kmem)
  pmem,       \* [num_free_pages, refcount]            (struct pmem)
  mem,        \* page frame -> [next, rest]: the first word and the other bytes
  panicked,   \* "" or the message of the panic that halted the system
  ret,        \* value returned by the last call (0 for void)
  refreed,    \* ghost: some page was pushed while already in the free list
  op,         \* ghost: the last call, [name, arg, note]; note is, for
              \*        kalloc, the count the table held for the head page
              \*        before the call and, for kfree of a followed page,
              \*        its hist before the call
  phase,      \* ghost: position in the boot protocol kinit1; kinit2
  handled,    \* ghost: pages that have ever been in the free list
  hist,       \* ghost: page -> [incs, frees], the inc_refcount and kfree calls
              \*        on it since a locked kalloc returned it, until it is
              \*        released (incs = -1: the page is not being followed)
  streak,     \* ghost: [base, n]: n kalloc calls in a row, the first made
              \*        with base pages in the free list (n is counted up to
              \*        base + 1)
  stack,      \* ghost: the pages released and not yet handed out again, the
              \*        last released first
  ctx,        \* context -> [pc, arg, r, tmp]: where the context is inside the
              \*        call it is making, the call's argument, and its locals
  owns,       \* ghost: context -> page -> the references the context holds
  cpu,        \* ghost: the context that holds kmem.lock (0: none)
  torn        \* ghost: a count was written by one context between the read
              \*        and the write of another context's ++ or --

vars ==
  <<kmem, pmem, mem, panicked, ret, refreed, op, phase, handled, hist,
    streak, stack, ctx, owns, cpu, torn>>

Cur ==
  [kmem |-> kmem, pmem |-> pmem, mem |-> mem, panicked |-> panicked,
   ret |-> ret, refreed |-> refreed]

\* ------------------------------------------------------------ free list

\* The pages reachable from address a along the next links, in order, up to
\* the null pointer or the first page met twice.
RECURSIVE Walk(_, _, _)
Walk(memory, a, seen) ==
  IF a = NULL \/ a \in seen \/ a \notin DOMAIN memory THEN <<>>
  ELSE <<a>> \o Walk(memory, memory[a].next, seen \cup {a})

\* Where that walk stops: NULL for a well-formed list.
RECURSIVE WalkEnd(_, _, _)
WalkEnd(memory, a, seen) ==
  IF a = NULL \/ a \in seen \/ a \notin DOMAIN memory THEN a
  ELSE WalkEnd(memory, memory[a].next, seen \cup {a})

FreeSeq(m) == Walk(m.mem, m.kmem.freelist, {})
FreeSet(m) == { FreeSeq(m)[i] : i \in 1 .. Len(FreeSeq(m)) }
Acyclic(m) == WalkEnd(m.mem, m.kmem.freelist, {}) = NULL

\* ------------------------------------------------------------ kalloc.c

panic(m, msg) == [m EXCEPT !.panicked = msg, !.ret = 0]

memset(memory, v, c) == [memory EXCEPT ![v] = [next |-> WordOf(c), rest |-> c]]

acquire(m) == [m EXCEPT !.kmem.lock = 1]
release(m) == [m EXCEPT !.kmem.lock = 0]

\* Variants of pushpage with a slip in them: the counter is not bumped; the
\* link is written before the page is poisoned.
pushpage_nocount(m, v) ==
  LET poisoned == memset(m.mem, v, 1)
      linked == [poisoned EXCEPT ![v].next = m.kmem.freelist]
  IN  [m EXCEPT !.mem = linked,
                !.kmem.freelist = v,
                !.refreed = @ \/ v \in FreeSet(m)]

pushpage_linkfirst(m, v) ==
  LET linked == [m.mem EXCEPT ![v].next = m.kmem.freelist]
      poisoned == memset(linked, v, 1)
  IN  [m EXCEPT !.mem = poisoned,
                !.kmem.freelist = v,
                !.pmem.num_free_pages = @ + 1,
                !.refreed = @ \/ v \in FreeSet(m)]

\* memset(v, 1, PGSIZE); r->next = kmem.freelist; kmem.freelist = r;
\* pmem.num_free_pages++
pushpage(m, v) ==
  LET poisoned == memset(m.mem, v, 1)
      linked == [poisoned EXCEPT ![v].next = m.kmem.freelist]
  IN  [m EXCEPT !.mem = linked,
                !.kmem.freelist = v,
                !.pmem.num_free_pages = @ + 1,
                !.refreed = @ \/ v \in FreeSet(m)]

\* Variants of kfree_refcounted with a slip in them: the page is poisoned
\* before the test for other sharers; the early return of a still shared
\* page is missing; the underflow test is missing.
kfree_poisonfirst(m, v) ==
  LET idx == V2P(v) \div PGSIZE
      a == acquire(m)
  IN  IF a.pmem.refcount[idx] = 0
      THEN panic(a, "kfree: refcount underflow")
      ELSE
        LET d == [a EXCEPT !.pmem.refcount[idx] = (@ - 1) % UintRange,
                           !.mem = memset(a.mem, v, 1)]
        IN  IF d.pmem.refcount[idx] > 0
            THEN [release(d) EXCEPT !.ret = 0]
            ELSE [release(pushpage(d, v)) EXCEPT !.ret = 0]

kfree_noearlyreturn(m, v) ==
  LET idx == V2P(v) \div PGSIZE
      a == acquire(m)
  IN  IF a.pmem.refcount[idx] = 0
      THEN panic(a, "kfree: refcount underflow")
      ELSE
        LET d == [a EXCEPT !.pmem.refcount[idx] = (@ - 1) % UintRange]
        IN  [release(pushpage(d, v)) EXCEPT !.ret = 0]

kfree_nounderflow(m, v) ==
  LET idx == V2P(v) \div PGSIZE
      a == acquire(m)
      d == [a EXCEPT !.pmem.refcount[idx] = (@ - 1) % UintRange]
  IN  IF d.pmem.refcount[idx] > 0
      THEN [release(d) EXCEPT !.ret = 0]
      ELSE [release(pushpage(d, v)) EXCEPT !.ret = 0]

\* kfree once locking is on: drop one reference under the lock, and give the
\* page back when that was the last one.
kfree_refcounted(m, v) ==
  LET idx == V2P(v) \div PGSIZE
      a == acquire(m)
  IN  IF a.pmem.refcount[idx] = 0
      THEN panic(a, "kfree: refcount underflow")
      ELSE
        LET d == [a EXCEPT !.pmem.refcount[idx] = (@ - 1) % UintRange]
        IN  IF d.pmem.refcount[idx] > 0
            THEN [release(d) EXCEPT !.ret = 0]
            ELSE [release(pushpage(d, v)) EXCEPT !.ret = 0]

\* Variants of kfree with a slip in them: the lock is taken before the
\* address is tested; the count is cleared on the path taken while locking
\* is off; the test against end is missing.
kfree_lockfirst(m, v) ==
  LET a == IF m.kmem.use_lock # 0 THEN acquire(m) ELSE m IN
  IF v % PGSIZE # 0 \/ v < end \/ V2P(v) >= PHYSTOP
  THEN panic(a, "kfree")
  ELSE IF a.kmem.use_lock = 0
       THEN [pushpage(a, v) EXCEPT !.ret = 0]
       ELSE kfree_refcounted(a, v)

kfree_countfirst(m, v) ==
  IF v % PGSIZE # 0 \/ v < end \/ V2P(v) >= PHYSTOP
  THEN panic(m, "kfree")
  ELSE IF m.kmem.use_lock = 0
       THEN [pushpage([m EXCEPT !.pmem.refcount[V2P(v) \div PGSIZE] = 0], v)
               EXCEPT !.ret = 0]
       ELSE kfree_refcounted(m, v)

kfree_noend(m, v) ==
  IF v % PGSIZE # 0 \/ V2P(v) >= PHYSTOP
  THEN panic(m, "kfree")
  ELSE IF m.kmem.use_lock = 0
       THEN [pushpage(m, v) EXCEPT !.ret = 0]
       ELSE kfree_refcounted(m, v)

kfree(m, v) ==
  IF v % PGSIZE # 0 \/ v < end \/ V2P(v) >= PHYSTOP
  THEN panic(m, "kfree")
  ELSE IF m.kmem.use_lock = 0
       THEN [pushpage(m, v) EXCEPT !.ret = 0]
       ELSE kfree_refcounted(m, v)

\* A variant of freeloop with a slip in it: the page that ends at vend is
\* left out.
RECURSIVE freeloop_strict(_, _, _)
freeloop_strict(m, p, vend) ==
  IF m.panicked # "" THEN m
  ELSE IF p + PGSIZE < vend THEN freeloop_strict(kfree(m, p), p + PGSIZE, vend)
  ELSE m

RECURSIVE freeloop(_, _, _)
freeloop(m, p, vend) ==
  IF m.panicked # "" THEN m
  ELSE IF p + PGSIZE <= vend THEN freeloop(kfree(m, p), p + PGSIZE, vend)
  ELSE m

freerange(m, vstart, vend) == freeloop(m, PGROUNDUP(vstart), vend)

kinit1(m, vstart, vend) ==
  freerange([m EXCEPT !.kmem.lock = 0, !.kmem.use_lock = 0, !.ret = 0],
            vstart, vend)

\* A variant of kinit2 with a slip in it: locking is turned on before the
\* seeding.
kinit2_flagfirst(m, vstart, vend) ==
  LET f == freerange([m EXCEPT !.ret = 0, !.kmem.use_lock = 1], vstart, vend) IN
  IF f.panicked # "" THEN f
  ELSE [f EXCEPT !.pmem.refcount = [i \in RefIdx |-> 0]]

kinit2(m, vstart, vend) ==
  LET f == freerange([m EXCEPT !.ret = 0], vstart, vend) IN
  IF f.panicked # "" THEN f
  ELSE [f EXCEPT !.kmem.use_lock = 1,
                 !.pmem.refcount = [i \in RefIdx |-> 0]]

\* Variants of kalloc with a slip in them: the count of the page is bumped
\* instead of set; the counter is decremented outside if(r); the page is
\* zeroed.
kalloc_inccount(m) ==
  LET a == IF m.kmem.use_lock # 0 THEN acquire(m) ELSE m
      r == a.kmem.freelist
      b == IF r # NULL
           THEN [a EXCEPT !.kmem.freelist = a.mem[r].next,
                          !.pmem.num_free_pages = @ - 1,
                          !.pmem.refcount[V2P(r) \div PGSIZE] = (@ + 1) % UintRange]
           ELSE a
      c == IF b.kmem.use_lock # 0 THEN release(b) ELSE b
  IN  [c EXCEPT !.ret = r]

kalloc_decralways(m) ==
  LET a == IF m.kmem.use_lock # 0 THEN acquire(m) ELSE m
      r == a.kmem.freelist
      b == IF r # NULL
           THEN [a EXCEPT !.kmem.freelist = a.mem[r].next,
                          !.pmem.num_free_pages = @ - 1,
                          !.pmem.refcount[V2P(r) \div PGSIZE] = 1]
           ELSE [a EXCEPT !.pmem.num_free_pages = @ - 1]
      c == IF b.kmem.use_lock # 0 THEN release(b) ELSE b
  IN  [c EXCEPT !.ret = r]

kalloc_zeroes(m) ==
  LET a == IF m.kmem.use_lock # 0 THEN acquire(m) ELSE m
      r == a.kmem.freelist
      b == IF r # NULL
           THEN [a EXCEPT !.kmem.freelist = a.mem[r].next,
                          !.pmem.num_free_pages = @ - 1,
                          !.pmem.refcount[V2P(r) \div PGSIZE] = 1,
                          !.mem = memset(a.mem, r, 0)]
           ELSE a
      c == IF b.kmem.use_lock # 0 THEN release(b) ELSE b
  IN  [c EXCEPT !.ret = r]

kalloc(m) ==
  LET a == IF m.kmem.use_lock # 0 THEN acquire(m) ELSE m
      r == a.kmem.freelist
      b == IF r # NULL
           THEN [a EXCEPT !.kmem.freelist = a.mem[r].next,
                          !.pmem.num_free_pages = @ - 1,
                          !.pmem.refcount[V2P(r) \div PGSIZE] = 1]
           ELSE a
      c == IF b.kmem.use_lock # 0 THEN release(b) ELSE b
  IN  [c EXCEPT !.ret = r]

freemem(m) == [m EXCEPT !.ret = m.pmem.num_free_pages]

get_refcount(m, pa) == [m EXCEPT !.ret = m.pmem.refcount[pa \div PGSIZE]]

inc_refcount(m, pa) ==
  [m EXCEPT !.pmem.refcount[pa \div PGSIZE] = (@ + 1) % UintRange, !.ret = 0]

\* A variant of dec_refcount with a slip in it: a count of 0 stays 0.
dec_refcount_floor(m, pa) ==
  [m EXCEPT !.pmem.refcount[pa \div PGSIZE] = IF @ = 0 THEN 0 ELSE @ - 1,
            !.ret = 0]

dec_refcount(m, pa) ==
  [m EXCEPT !.pmem.refcount[pa \div PGSIZE] = (@ - 1) % UintRange, !.ret = 0]

\* A caller fills a page it was given with byte c (memset(p, c, PGSIZE)).
usepage(m, p, c) == [m EXCEPT !.mem = memset(m.mem, p, c), !.ret = 0]

\* ------------------------------------------------------------ calls

\* Arguments the callers pass: the null pointer, an aligned address below
\* end, a misaligned address, every page between end and PHYSTOP, and the
\* first aligned address at PHYSTOP.
KfreeArgs == {NULL, KERNBASE, end + 2} \cup { a \in end .. P2V(PHYSTOP) : a % PGSIZE = 0 }
\* Ranges [vstart, vend) handed to kinit1 and kinit2: the two of main()
\* (end to a page boundary, from there to P2V(PHYSTOP)), both at once, a
\* misaligned start with a trailing partial page, an empty range, a range
\* whose end lies below its rounded start, one that starts below end and
\* one that reaches beyond PHYSTOP.
Ranges ==
  { <<end, end + 3>>, <<end + 3, P2V(PHYSTOP)>>, <<end, P2V(PHYSTOP)>>,
    <<end + 2, end + 6>>, <<end + 5, end + 5>>, <<end + 4, end + 3>>,
    <<KERNBASE, end + 3>>, <<end + 3, P2V(PHYSTOP) + PGSIZE>> }
\* Physical addresses passed to the accessors: the base of every page
\* between end and PHYSTOP, and one address inside the first of them.
AccessArgs == { V2P(a) : a \in { b \in end .. (P2V(PHYSTOP) - 1) : b % PGSIZE = 0 } }
                \cup {V2P(PGROUNDUP(end)) + 1}
InitBytes == {0}
UseBytes == {0}
\* The ranges main() seeds: from end to a page boundary, and from there to
\* the top of a machine with one page less than PHYSTOP allows, or to PHYSTOP.
BootRanges1 == { <<end, end + 3>> }
BootRanges2 == { <<end + 3, P2V(PHYSTOP) - PGSIZE>> }
\* The execution contexts (cores) that call the allocator once it runs.
Contexts == 1 .. NCPU
Idle == [pc |-> "idle", arg |-> 0, r |-> 0, tmp |-> 0]

PageOf(pa) == P2V((pa \div PGSIZE) * PGSIZE)
IdxOf(v) == V2P(v) \div PGSIZE
Held(p) == p \in handled /\ p \notin FreeSet(Cur)

\* What kfree's first test accepts.
ValidPage(v) == v % PGSIZE = 0 /\ v >= end /\ V2P(v) < PHYSTOP

Untracked == [incs |-> 0 - 1, frees |-> 0]
Tracked(p) == hist[p].incs >= 0

\* kfree(v) called in machine state m gives the page back to the pool.
Releases(m, v) ==
  /\ ValidPage(v)
  /\ m.kmem.use_lock = 0 \/ m.pmem.refcount[IdxOf(v)] = 1

\* kfree(v) called in machine state m halts the system.
Halts(m, v) ==
  \/ ~ValidPage(v)
  \/ m.kmem.use_lock # 0 /\ m.pmem.refcount[IdxOf(v)] = 0

\* The pages a seeding of [vstart, vend) releases in machine state m, the
\* last released first.
RECURSIVE SeedStack(_, _, _, _)
SeedStack(m, p, vend, acc) ==
  IF p + PGSIZE > vend \/ Halts(m, p) THEN acc
  ELSE SeedStack(m, p + PGSIZE, vend,
                 IF Releases(m, p) THEN <<p>> \o acc ELSE acc)

Init ==
  /\ kmem = [lock |-> 0, use_lock |-> 0, freelist |-> NULL]
  /\ pmem = [num_free_pages |-> 0, refcount |-> [i \in RefIdx |-> 0]]
  /\ \E c \in InitBytes : mem = [a \in Frames |-> [next |-> WordOf(c), rest |-> c]]
  /\ panicked = ""
  /\ ret = 0
  /\ refreed = FALSE
  /\ op = [name |-> "boot", arg |-> <<>>, note |-> <<>>]
  /\ phase = "boot0"
  /\ handled = {}
  /\ hist = [p \in Frames |-> Untracked]
  /\ streak = [base |-> 0, n |-> 0]
  /\ stack = <<>>
  /\ ctx = [c \in Contexts |-> Idle]
  /\ owns = [c \in Contexts |-> [p \in Frames |-> 0]]
  /\ cpu = 0
  /\ torn = FALSE

\* The ghost variables after the call name(arg) that takes the machine to m.
HistAfter(name, arg, m) ==
  IF m.panicked # "" THEN hist
  ELSE CASE name = "kalloc" ->
              IF m.ret = NULL THEN hist
              ELSE [hist EXCEPT ![m.ret] =
                      IF m.kmem.use_lock # 0 THEN [incs |-> 0, frees |-> 0]
                      ELSE Untracked]
         [] name = "inc_refcount" ->
              [hist EXCEPT ![PageOf(arg[1])] =
                 IF @.incs >= 0 THEN [@ EXCEPT !.incs = @ + 1] ELSE @]
         [] name = "kfree" ->
              [hist EXCEPT ![arg[1]] =
                 IF @.incs >= 0 /\ kmem.use_lock # 0 /\ ~Releases(Cur, arg[1])
                 THEN [@ EXCEPT !.frees = @ + 1] ELSE Untracked]
         [] name = "dec_refcount" ->
              [hist EXCEPT ![PageOf(arg[1])] = Untracked]
         [] name \in {"kinit1", "kinit2"} -> [p \in Frames |-> Untracked]
         [] OTHER -> hist

StreakAfter(name, m) ==
  IF name = "kalloc"
  THEN [streak EXCEPT !.n = IF @ > streak.base THEN @ ELSE @ + 1]
  ELSE [base |-> Len(FreeSeq(m)), n |-> 0]

StackAfter(name, arg, m) ==
  CASE name = "kalloc" ->
         IF m.ret # NULL /\ stack # <<>> THEN Tail(stack) ELSE stack
    [] name = "kfree" ->
         IF Releases(Cur, arg[1]) THEN <<arg[1]>> \o stack ELSE stack
    [] name = "kinit1" ->
         SeedStack([Cur EXCEPT !.kmem.use_lock = 0], PGROUNDUP(arg[1]), arg[2], <<>>)
           \o stack
    [] name = "kinit2" ->
         SeedStack(Cur, PGROUNDUP(arg[1]), arg[2], <<>>) \o stack
    [] OTHER -> stack

NoteOf(name, arg) ==
  CASE name = "kalloc" ->
         IF kmem.freelist = NULL THEN <<>>
         ELSE <<pmem.refcount[IdxOf(kmem.freelist)]>>
    [] name = "kfree" ->
         IF arg[1] \in Frames /\ Tracked(arg[1])
         THEN <<hist[arg[1]].incs, hist[arg[1]].frees>> ELSE <<>>
    [] OTHER -> <<>>

\* One whole call that takes the machine to m, and the boot protocol to ph
\* when the call returns.  Nothing runs after a panic.
Machine(name, arg, m, ph) ==
  /\ panicked = ""
  /\ m.pmem.num_free_pages <= MaxCount
  /\ m.pmem.num_free_pages >= 0 - MaxCount
  /\ kmem' = m.kmem
  /\ pmem' = m.pmem
  /\ mem' = m.mem
  /\ panicked' = m.panicked
  /\ ret' = m.ret
  /\ refreed' = m.refreed
  /\ phase' = IF m.panicked # "" THEN phase ELSE ph
  /\ handled' = handled \cup FreeSet(m)
  /\ UNCHANGED <<ctx, owns, cpu, torn>>

\* A call of Spec, with the ghost variables its claims read.
Call(name, arg, m, ph) ==
  /\ Machine(name, arg, m, ph)
  /\ op' = [name |-> name, arg |-> arg, note |-> NoteOf(name, arg)]
  /\ hist' = HistAfter(name, arg, m)
  /\ streak' = StreakAfter(name, m)
  /\ stack' = StackAfter(name, arg, m)

\* A call of SpecAny.
CallAny(name, arg, m, ph) ==
  /\ Machine(name, arg, m, ph)
  /\ op' = [name |-> name, arg |-> arg, note |-> <<>>]
  /\ UNCHANGED <<hist, streak, stack>>

\* While locking is off nothing detects a second free of a free page; the
\* callers of Spec never make one (kfree's contract: v came from kalloc, or
\* is being seeded).
Seeded(m) == kmem.use_lock = 0 => ~m.refreed

\* --- the kernel's calls, in boot order (Spec)

Kinit1 ==
  /\ phase = "boot0"
  /\ \E r \in Ranges :
       /\ Seeded(kinit1(Cur, r[1], r[2]))
       /\ Call("kinit1", r, kinit1(Cur, r[1], r[2]), "boot1")

Kinit2 ==
  /\ phase = "boot1"
  /\ \E r \in Ranges :
       /\ Seeded(kinit2(Cur, r[1], r[2]))
       /\ Call("kinit2", r, kinit2(Cur, r[1], r[2]), "run")

Kfree ==
  /\ phase # "boot0"
  /\ \E v \in KfreeArgs :
       /\ Seeded(kfree(Cur, v))
       /\ Call("kfree", <<v>>, kfree(Cur, v), phase)

Kalloc == Call("kalloc", <<>>, kalloc(Cur), phase)

\* inc_refcount is called once per new sharer of an allocated page.
IncRefcount ==
  \E pa \in AccessArgs :
    /\ Held(PageOf(pa))
    /\ pmem.refcount[pa \div PGSIZE] < MaxRef
    /\ hist[PageOf(pa)].incs < MaxRef - 1
    /\ Call("inc_refcount", <<pa>>, inc_refcount(Cur, pa), phase)

\* dec_refcount on a zero count is outside its contract.
DecRefcount ==
  \E pa \in AccessArgs :
    /\ Held(PageOf(pa))
    /\ pmem.refcount[pa \div PGSIZE] > 0
    /\ Call("dec_refcount", <<pa>>, dec_refcount(Cur, pa), phase)

\* The holder of a page writes to it.
UsePage ==
  \E p \in Frames, c \in UseBytes :
    /\ Held(p)
    /\ Call("usepage", <<p, c>>, usepage(Cur, p, c), phase)

Next ==
  \/ Kinit1
  \/ Kinit2
  \/ Kfree
  \/ Kalloc
  \/ IncRefcount
  \/ DecRefcount
  \/ UsePage

Spec == Init /\ [][Next]_vars

\* --- any sequence of kinit1, kinit2, kalloc and kfree calls (SpecAny)

AnyKinit1 ==
  \E r \in Ranges :
    CallAny("kinit1", r, kinit1(Cur, r[1], r[2]),
            IF phase = "boot0" THEN "boot1" ELSE "loose")

AnyKinit2 ==
  \E r \in Ranges :
    CallAny("kinit2", r, kinit2(Cur, r[1], r[2]),
            IF phase = "boot1" THEN "run" ELSE "loose")

AnyKfree ==
  \E v \in KfreeArgs : CallAny("kfree", <<v>>, kfree(Cur, v), phase)

AnyKalloc == CallAny("kalloc", <<>>, kalloc(Cur), phase)

NextAny ==
  \/ AnyKinit1
  \/ AnyKinit2
  \/ AnyKfree
  \/ AnyKalloc

SpecAny == Init /\ [][NextAny]_vars

\* --- the running kernel: contexts interleave their calls (SpecConc)
\*
\* After the boot calls, each context makes one call at a time and each step
\* below is one access of the call to kmem, pmem or a page.  A context frees
\* and shares only pages it holds a reference to; the reference is given up
\* when kfree is called and gained when kalloc returns; inc_refcount is called
\* by a holder, once for each new sharer, who gains the reference when it
\* returns.  pmem.refcount[i]++ and -- are a read followed by a write.
\* Once a count has been torn the callers' references no longer match the
\* table: the contexts then finish their calls and free what they hold, and
\* take no new reference (this keeps the references bounded).

Owners(p) == LET S[n \in 0 .. NCPU] == IF n = 0 THEN 0 ELSE S[n - 1] + owns[n][p]
             IN  S[NCPU]

\* The entry a context is about to write back with the value in its tmp.
Pending(d) ==
  CASE ctx[d].pc = "inc_write" -> ctx[d].arg \div PGSIZE
    [] ctx[d].pc = "kf_write" -> IdxOf(ctx[d].arg)
    [] OTHER -> 0 - 1

\* A write of entry i by context c lands between the read and the write of
\* another context's ++ or -- of the same entry.
Tears(c, i) == \E d \in Contexts \ {c} : Pending(d) = i

\* One step of context c: the machine goes to m and c's locals to l.  (ret
\* and op describe the calls of the boot context; a context's own return
\* value is in its locals.)
Step(c, m, l) ==
  /\ panicked = ""
  /\ phase = "run"
  /\ m.pmem.num_free_pages <= MaxCount
  /\ m.pmem.num_free_pages >= 0 - MaxCount
  /\ kmem' = m.kmem
  /\ pmem' = m.pmem
  /\ mem' = m.mem
  /\ panicked' = m.panicked
  /\ refreed' = m.refreed
  /\ ctx' = [ctx EXCEPT ![c] = l]
  /\ handled' = handled \cup FreeSet(m)
  /\ UNCHANGED <<ret, op, phase, hist, streak, stack>>

\* A step inside a call: no reference changes hands.
Inside(c, m, l) ==
  /\ Step(c, m, l)
  /\ owns' = owns

\* The step that returns from a call.
Return(c, m) == Step(c, m, Idle)

\* The boot context's two calls, with the ranges of main().
BootKinit1 ==
  /\ phase = "boot0"
  /\ \E r \in BootRanges1 : CallAny("kinit1", r, kinit1(Cur, r[1], r[2]), "boot1")

BootKinit2 ==
  /\ phase = "boot1"
  /\ \E r \in BootRanges2 : CallAny("kinit2", r, kinit2(Cur, r[1], r[2]), "run")

\* kalloc, lines 124-125
CallKalloc(c) ==
  /\ ctx[c].pc = "idle"
  /\ ~torn
  /\ Inside(c, Cur, [Idle EXCEPT !.pc = "ka_acquire"])
  /\ UNCHANGED <<cpu, torn>>

KaAcquire(c) ==
  /\ ctx[c].pc = "ka_acquire"
  /\ IF kmem.use_lock # 0
     THEN /\ kmem.lock = 0
          /\ Inside(c, acquire(Cur), [ctx[c] EXCEPT !.pc = "ka_head"])
          /\ cpu' = c
     ELSE /\ Inside(c, Cur, [ctx[c] EXCEPT !.pc = "ka_head"])
          /\ cpu' = cpu
  /\ torn' = torn

\* Variants of KaHead with a slip in them: the counter is decremented for an
\* empty list too; the empty list returns at once.
KaHead_countempty(c) ==
  /\ ctx[c].pc = "ka_head"
  /\ IF kmem.freelist # NULL
     THEN Inside(c, Cur, [ctx[c] EXCEPT !.r = kmem.freelist, !.pc = "ka_pop"])
     ELSE Inside(c, [Cur EXCEPT !.pmem.num_free_pages = @ - 1],
                 [ctx[c] EXCEPT !.r = NULL, !.pc = "ka_release"])
  /\ UNCHANGED <<cpu, torn>>

KaHead_earlyreturn(c) ==
  /\ ctx[c].pc = "ka_head"
  /\ IF kmem.freelist # NULL
     THEN Inside(c, Cur, [ctx[c] EXCEPT !.r = kmem.freelist, !.pc = "ka_pop"])
     ELSE Return(c, Cur) /\ owns' = owns
  /\ UNCHANGED <<cpu, torn>>

\* line 126-127: r = kmem.freelist; if(r)
KaHead(c) ==
  /\ ctx[c].pc = "ka_head"
  /\ Inside(c, Cur,
            [ctx[c] EXCEPT !.r = kmem.freelist,
                           !.pc = IF kmem.freelist # NULL THEN "ka_pop"
                                  ELSE "ka_release"])
  /\ UNCHANGED <<cpu, torn>>

\* A variant of KaPop with a slip in it: the head is written back.
KaPop_keep(c) ==
  /\ ctx[c].pc = "ka_pop"
  /\ Inside(c, [Cur EXCEPT !.kmem.freelist = ctx[c].r],
            [ctx[c] EXCEPT !.pc = "ka_count"])
  /\ UNCHANGED <<cpu, torn>>

\* line 128: kmem.freelist = r->next
KaPop(c) ==
  /\ ctx[c].pc = "ka_pop"
  /\ Inside(c, [Cur EXCEPT !.kmem.freelist = mem[ctx[c].r].next],
            [ctx[c] EXCEPT !.pc = "ka_count"])
  /\ UNCHANGED <<cpu, torn>>

\* line 129: pmem.num_free_pages--
KaCount(c) ==
  /\ ctx[c].pc = "ka_count"
  /\ Inside(c, [Cur EXCEPT !.pmem.num_free_pages = @ - 1],
            [ctx[c] EXCEPT !.pc = "ka_ref"])
  /\ UNCHANGED <<cpu, torn>>

\* lines 130-131: pmem.refcount[pa >> PGSHIFT] = 1
KaRef(c) ==
  /\ ctx[c].pc = "ka_ref"
  /\ Inside(c, [Cur EXCEPT !.pmem.refcount[V2P(ctx[c].r) \div PGSIZE] = 1],
            [ctx[c] EXCEPT !.pc = "ka_release"])
  /\ cpu' = cpu
  /\ torn' = (torn \/ Tears(c, V2P(ctx[c].r) \div PGSIZE))

\* lines 134-136: release, return r
KaRelease(c) ==
  /\ ctx[c].pc = "ka_release"
  /\ Return(c, IF kmem.use_lock # 0 THEN release(Cur) ELSE Cur)
  /\ cpu' = IF kmem.use_lock # 0 THEN 0 ELSE cpu
  /\ owns' = IF ctx[c].r = NULL THEN owns
             ELSE [owns EXCEPT ![c][ctx[c].r] = @ + 1]
  /\ torn' = torn

\* kfree(v) by a holder of v, lines 73-88: the address test and the path
\* taken while locking is off
CallKfree(c) ==
  /\ ctx[c].pc = "idle"
  /\ \E v \in Frames :
       /\ owns[c][v] > 0
       /\ owns' = [owns EXCEPT ![c][v] = @ - 1]
       /\ IF v % PGSIZE # 0 \/ v < end \/ V2P(v) >= PHYSTOP
          THEN Step(c, panic(Cur, "kfree"), [Idle EXCEPT !.arg = v])
          ELSE IF kmem.use_lock = 0
          THEN Return(c, pushpage(Cur, v))
          ELSE Step(c, Cur, [Idle EXCEPT !.pc = "kf_acquire", !.arg = v])
  /\ UNCHANGED <<cpu, torn>>

\* line 90
KfAcquire(c) ==
  /\ ctx[c].pc = "kf_acquire"
  /\ IF kmem.use_lock # 0
     THEN /\ kmem.lock = 0
          /\ Inside(c, acquire(Cur), [ctx[c] EXCEPT !.pc = "kf_test"])
          /\ cpu' = c
     ELSE /\ Inside(c, Cur, [ctx[c] EXCEPT !.pc = "kf_test"])
          /\ cpu' = cpu
  /\ torn' = torn

\* lines 93-94: if(pmem.refcount[idx] == 0) panic
KfTest(c) ==
  /\ ctx[c].pc = "kf_test"
  /\ IF pmem.refcount[IdxOf(ctx[c].arg)] = 0
     THEN Inside(c, panic(Cur, "kfree: refcount underflow"), ctx[c])
     ELSE Inside(c, Cur, [ctx[c] EXCEPT !.pc = "kf_read"])
  /\ UNCHANGED <<cpu, torn>>

\* line 95, pmem.refcount[idx]--: the read
KfRead(c) ==
  /\ ctx[c].pc = "kf_read"
  /\ Inside(c, Cur, [ctx[c] EXCEPT !.tmp = pmem.refcount[IdxOf(ctx[c].arg)],
                                   !.pc = "kf_write"])
  /\ UNCHANGED <<cpu, torn>>

\* A variant of KfWrite with a slip in it: the value read is written back.
KfWrite_nodec(c) ==
  /\ ctx[c].pc = "kf_write"
  /\ Inside(c, [Cur EXCEPT !.pmem.refcount[IdxOf(ctx[c].arg)] = ctx[c].tmp],
            [ctx[c] EXCEPT !.tmp = 0, !.pc = "kf_shared"])
  /\ cpu' = cpu
  /\ torn' = (torn \/ Tears(c, IdxOf(ctx[c].arg)))

\* line 95, pmem.refcount[idx]--: the write
KfWrite(c) ==
  /\ ctx[c].pc = "kf_write"
  /\ Inside(c, [Cur EXCEPT !.pmem.refcount[IdxOf(ctx[c].arg)] =
                             (ctx[c].tmp - 1) % UintRange],
            [ctx[c] EXCEPT !.tmp = 0, !.pc = "kf_shared"])
  /\ cpu' = cpu
  /\ torn' = (torn \/ Tears(c, IdxOf(ctx[c].arg)))

\* Variants of KfShared with a slip in them: the still shared page returns
\* without release.
KfShared_norelease(c) ==
  /\ ctx[c].pc = "kf_shared"
  /\ IF pmem.refcount[IdxOf(ctx[c].arg)] > 0
     THEN Return(c, Cur) /\ owns' = owns
     ELSE Inside(c, Cur, [ctx[c] EXCEPT !.pc = "kf_poison"])
  /\ UNCHANGED <<cpu, torn>>

\* line 98: if(pmem.refcount[idx] > 0)
KfShared(c) ==
  /\ ctx[c].pc = "kf_shared"
  /\ Inside(c, Cur,
            [ctx[c] EXCEPT !.pc = IF pmem.refcount[IdxOf(ctx[c].arg)] > 0
                                  THEN "kf_release" ELSE "kf_poison"])
  /\ UNCHANGED <<cpu, torn>>

\* line 105: memset(v, 1, PGSIZE)
KfPoison(c) ==
  /\ ctx[c].pc = "kf_poison"
  /\ Inside(c, [Cur EXCEPT !.mem = memset(mem, ctx[c].arg, 1)],
            [ctx[c] EXCEPT !.pc = "kf_link"])
  /\ UNCHANGED <<cpu, torn>>

\* lines 106-107: r->next = kmem.freelist
KfLink(c) ==
  /\ ctx[c].pc = "kf_link"
  /\ Inside(c, [Cur EXCEPT !.mem[ctx[c].arg].next = kmem.freelist],
            [ctx[c] EXCEPT !.pc = "kf_push"])
  /\ UNCHANGED <<cpu, torn>>

\* line 108: kmem.freelist = r
KfPush(c) ==
  /\ ctx[c].pc = "kf_push"
  /\ Inside(c, [Cur EXCEPT !.kmem.freelist = ctx[c].arg,
                           !.refreed = @ \/ ctx[c].arg \in FreeSet(Cur)],
            [ctx[c] EXCEPT !.pc = "kf_count"])
  /\ UNCHANGED <<cpu, torn>>

\* line 110: pmem.num_free_pages++
KfCount(c) ==
  /\ ctx[c].pc = "kf_count"
  /\ Inside(c, [Cur EXCEPT !.pmem.num_free_pages = @ + 1],
            [ctx[c] EXCEPT !.pc = "kf_release"])
  /\ UNCHANGED <<cpu, torn>>

\* lines 99-101 and 112-114: release, return
KfRelease(c) ==
  /\ ctx[c].pc = "kf_release"
  /\ Return(c, IF kmem.use_lock # 0 THEN release(Cur) ELSE Cur)
  /\ cpu' = IF kmem.use_lock # 0 THEN 0 ELSE cpu
  /\ UNCHANGED <<owns, torn>>

\* inc_refcount(pa) by a holder of the page for a new sharer, line 154: the
\* read of pmem.refcount[pa >> PGSHIFT]++
CallIncRefcount(c) ==
  /\ ctx[c].pc = "idle"
  /\ \E pa \in AccessArgs :
       /\ ~torn
       /\ owns[c][PageOf(pa)] > 0
       /\ Owners(PageOf(pa)) < MaxRef
       /\ pmem.refcount[pa \div PGSIZE] <= MaxRef
       /\ Inside(c, Cur, [Idle EXCEPT !.pc = "inc_write", !.arg = pa,
                                      !.tmp = pmem.refcount[pa \div PGSIZE]])
  /\ UNCHANGED <<cpu, torn>>

\* line 154: the write; the new sharer s holds its reference from here
IncWrite(c) ==
  /\ ctx[c].pc = "inc_write"
  /\ Return(c, [Cur EXCEPT !.pmem.refcount[ctx[c].arg \div PGSIZE] =
                              (ctx[c].tmp + 1) % UintRange])
  /\ \E s \in Contexts : owns' = [owns EXCEPT ![s][PageOf(ctx[c].arg)] = @ + 1]
  /\ cpu' = cpu
  /\ torn' = (torn \/ Tears(c, ctx[c].arg \div PGSIZE))

\* freemem, line 142: one read, no lock; then the return of what it read
CallFreemem(c) ==
  /\ ctx[c].pc = "idle"
  /\ Inside(c, Cur, [Idle EXCEPT !.pc = "fm_return", !.tmp = freemem(Cur).ret])
  /\ UNCHANGED <<cpu, torn>>

FmReturn(c) ==
  /\ ctx[c].pc = "fm_return"
  /\ Return(c, Cur)
  /\ UNCHANGED <<owns, cpu, torn>>

NextConc ==
  \/ BootKinit1
  \/ BootKinit2
  \/ \E c \in Contexts :
       \/ CallKalloc(c)
       \/ KaAcquire(c)
       \/ KaHead(c)
       \/ KaPop(c)
       \/ KaCount(c)
       \/ KaRef(c)
       \/ KaRelease(c)
       \/ CallKfree(c)
       \/ KfAcquire(c)
       \/ KfTest(c)
       \/ KfRead(c)
       \/ KfWrite(c)
       \/ KfShared(c)
       \/ KfPoison(c)
       \/ KfLink(c)
       \/ KfPush(c)
       \/ KfCount(c)
       \/ KfRelease(c)
       \/ CallIncRefcount(c)
       \/ IncWrite(c)
       \/ CallFreemem(c)
       \/ FmReturn(c)

SpecConc == Init /\ [][NextConc]_vars

\* --- contexts that keep running, calling kalloc and kfree (SpecLive)

\* The steps of context c inside kalloc and kfree.
Proceed(c) ==
  \/ KaAcquire(c)
  \/ KaHead(c)
  \/ KaPop(c)
  \/ KaCount(c)
  \/ KaRef(c)
  \/ KaRelease(c)
  \/ KfAcquire(c)
  \/ KfTest(c)
  \/ KfRead(c)
  \/ KfWrite(c)
  \/ KfShared(c)
  \/ KfPoison(c)
  \/ KfLink(c)
  \/ KfPush(c)
  \/ KfCount(c)
  \/ KfRelease(c)

\* inc_refcount(pa) called by a holder of the page for a new sharer s, under
\* the callers' own exclusion: the whole call is one step.
SharePage(c) ==
  /\ ctx[c].pc = "idle"
  /\ \E pa \in AccessArgs, s \in Contexts :
       /\ owns[c][PageOf(pa)] > 0
       /\ Owners(PageOf(pa)) < MaxRef
       /\ \A d \in Contexts : Pending(d) # pa \div PGSIZE
       /\ Step(c, [inc_refcount(Cur, pa) EXCEPT !.ret = ret], Idle)
       /\ owns' = [owns EXCEPT ![s][PageOf(pa)] = @ + 1]
  /\ UNCHANGED <<cpu, torn>>

NextLive ==
  \/ BootKinit1
  \/ BootKinit2
  \/ \E c \in Contexts :
       \/ CallKalloc(c)
       \/ CallKfree(c)
       \/ SharePage(c)
       \/ Proceed(c)

\* A core executes its next instruction whenever it has one: the spin of
\* acquire goes on while the lock is taken, and gets the lock only if it is
\* free when the spinner looks.
SpecLive ==
  /\ Init
  /\ [][NextLive]_vars
  /\ \A c \in Contexts : WF_vars(Proceed(c))

\* ------------------------------------------------------------ claims

Rev(q) == [i \in 1 .. Len(q) |-> q[Len(q) + 1 - i]]
NoDup(q) == \A i, j \in 1 .. Len(q) : q[i] = q[j] => i = j

\* The pages of [vstart, vend) in the order freerange visits them.
SeedPages(vstart, vend) ==
  LET first == PGROUNDUP(vstart)
      n == IF vend >= first + PGSIZE THEN (vend - first) \div PGSIZE ELSE 0
  IN  [i \in 1 .. n |-> first + (i - 1) * PGSIZE]

\* The pages of q before the first one kfree rejects.
RECURSIVE ValidPrefix(_)
ValidPrefix(q) ==
  IF q = <<>> \/ ~ValidPage(Head(q)) THEN <<>>
  ELSE <<Head(q)>> \o ValidPrefix(Tail(q))

\* C1 as stated: after any sequence of kinit1, kinit2, kalloc and kfree calls
\* that does not halt, freemem() is the number of pages reachable from the
\* head of the free list.
C1_AnySequence ==
  panicked = "" => freemem(Cur).ret = Cardinality(FreeSet(Cur))

\* C1 amended: the same, for the sequences in which no page is freed while it
\* is already in the free list.
C1_CounterIsListLength ==
  (panicked = "" /\ ~refreed) => freemem(Cur).ret = Cardinality(FreeSet(Cur))

C1_Witness ==
  /\ panicked = "" /\ ~refreed
  /\ phase = "run" /\ kmem.use_lock = 1
  /\ op.name = "kfree"
  /\ freemem(Cur).ret >= 2
  /\ handled \ FreeSet(Cur) # {}

\* C2: once kinit2 has returned (after kinit1, with no page freed twice), a
\* page the allocator has handled is in the free list exactly when its count
\* is 0, so a page kalloc returned and nobody released has a count >= 1,
\* pages returned between kinit1 and kinit2 included.
C2_CountZeroIffFree ==
  (phase = "run" /\ panicked = "" /\ ~refreed) =>
    \A p \in handled :
      p \in FreeSet(Cur) <=> get_refcount(Cur, V2P(p)).ret = 0

\* C3: when kalloc returns a page p, get_refcount(V2P(p)) is then 1 whatever
\* the table held before, the free-page counter is one less, and p is not in
\* the free list.
C3_Step ==
  (op'.name = "kalloc" /\ ret' # NULL) =>
    /\ get_refcount(Cur', V2P(ret')).ret = 1
    /\ freemem(Cur').ret = freemem(Cur).ret - 1
    /\ ret' \notin FreeSet(Cur')

C3_FreshPage == [][C3_Step]_vars

C3_Witness ==
  /\ op.name = "kalloc" /\ ret # NULL
  /\ op.note = <<2>>
  /\ get_refcount(Cur, V2P(ret)).ret = 1

\* C4: with locking on, kfree(p) of a page whose count is n > 1 makes the
\* count n - 1 and changes nothing else: the list, the counter, the page
\* contents and the other counts stay, p is not in the free list and the
\* lock is free on return.
C4_Step ==
  (/\ op'.name = "kfree"
   /\ kmem.use_lock = 1
   /\ ValidPage(op'.arg[1])
   /\ pmem.refcount[IdxOf(op'.arg[1])] > 1) =>
    /\ panicked' = ""
    /\ pmem' = [pmem EXCEPT !.refcount[IdxOf(op'.arg[1])] = @ - 1]
    /\ kmem' = kmem
    /\ kmem'.lock = 0
    /\ mem' = mem
    /\ op'.arg[1] \notin FreeSet(Cur')

C4_SharedFree == [][C4_Step]_vars

C4_Witness ==
  /\ op.name = "kfree" /\ panicked = ""
  /\ kmem.use_lock = 1
  /\ ValidPage(op.arg[1])
  /\ pmem.refcount[IdxOf(op.arg[1])] >= 1
  /\ mem[op.arg[1]].rest = 0
  /\ FreeSet(Cur) # {}

\* C5: with locking on, a page obtained from kalloc and given k inc_refcount
\* calls is out of the free list after each of its first k kfree calls, and
\* its (k+1)-th kfree sets the count to 0, poisons the page, pushes it at the
\* head of the free list and adds 1 to the counter.
C5_Step ==
  /\ \A p \in Frames :
       hist'[p].incs >= 0 =>
         /\ p \notin FreeSet(Cur')
         /\ hist'[p].frees <= hist'[p].incs
         /\ pmem'.refcount[IdxOf(p)] = 1 + hist'[p].incs - hist'[p].frees
  /\ (/\ op'.name = "kfree"
      /\ kmem.use_lock = 1
      /\ op'.arg[1] \in Frames
      /\ Tracked(op'.arg[1])) =>
       /\ panicked' = ""
       /\ IF hist[op'.arg[1]].frees = hist[op'.arg[1]].incs
          THEN /\ pmem'.refcount[IdxOf(op'.arg[1])] = 0
               /\ mem'[op'.arg[1]] = [next |-> kmem.freelist, rest |-> 1]
               /\ kmem'.freelist = op'.arg[1]
               /\ FreeSeq(Cur') = <<op'.arg[1]>> \o FreeSeq(Cur)
               /\ pmem'.num_free_pages = pmem.num_free_pages + 1
          ELSE op'.arg[1] \notin FreeSet(Cur')

C5_LastFreeReleases == [][C5_Step]_vars

C5_Witness ==
  /\ op.name = "kfree" /\ panicked = ""
  /\ op.note = <<1, 1>>
  /\ kmem.freelist = op.arg[1]
  /\ mem[op.arg[1]].rest = 1

\* C6 as stated: kfree of a valid page whose count is 0 halts the system, and
\* neither pushes the page, nor changes its count, nor the counter.
C6_Step ==
  (/\ op'.name = "kfree"
   /\ ValidPage(op'.arg[1])
   /\ pmem.refcount[IdxOf(op'.arg[1])] = 0) =>
    /\ panicked' # ""
    /\ FreeSeq(Cur') = FreeSeq(Cur)
    /\ pmem' = pmem

C6_ZeroCountIsFatal == [][C6_Step]_vars

\* C6 amended: once locking is on, kfree of a valid page whose count is 0
\* halts the system with the underflow panic, and neither pushes the page,
\* nor changes its count, nor the counter.
C6_LockedStep ==
  (/\ op'.name = "kfree"
   /\ kmem.use_lock = 1
   /\ ValidPage(op'.arg[1])
   /\ pmem.refcount[IdxOf(op'.arg[1])] = 0) =>
    /\ panicked' = "kfree: refcount underflow"
    /\ FreeSeq(Cur') = FreeSeq(Cur)
    /\ mem' = mem
    /\ pmem' = pmem

C6_ZeroCountIsFatalWhenLocked == [][C6_LockedStep]_vars

C6_Witness ==
  /\ panicked = "kfree: refcount underflow"
  /\ op.name = "kfree"
  /\ op.arg[1] \in FreeSet(Cur)
  /\ pmem.refcount[IdxOf(op.arg[1])] = 0

\* C7: kfree(v) halts with panic "kfree" when v is misaligned, below end or
\* at or above PHYSTOP, before and after locking is on, and at the halt the
\* list, the counter, the table and the lock are as the call found them; a
\* seeding halts the same way at the first such page of its range, with the
\* pages before it pushed and the table and the locking flag untouched.
C7_Step ==
  /\ (op'.name = "kfree" /\ ~ValidPage(op'.arg[1])) =>
       /\ panicked' = "kfree"
       /\ kmem' = kmem
       /\ pmem' = pmem
       /\ mem' = mem
  /\ (/\ op'.name \in {"kinit1", "kinit2"}
      /\ \E i \in DOMAIN SeedPages(op'.arg[1], op'.arg[2]) :
           ~ValidPage(SeedPages(op'.arg[1], op'.arg[2])[i])) =>
       /\ panicked' = "kfree"
       /\ pmem'.refcount = pmem.refcount
       /\ kmem'.use_lock = 0
       /\ kmem'.lock = 0
       /\ FreeSeq(Cur') =
            Rev(ValidPrefix(SeedPages(op'.arg[1], op'.arg[2]))) \o FreeSeq(Cur)
       /\ pmem'.num_free_pages =
            pmem.num_free_pages + Len(ValidPrefix(SeedPages(op'.arg[1], op'.arg[2])))

C7_BadAddressIsFatal == [][C7_Step]_vars

C7_Witness ==
  /\ panicked = "kfree"
  /\ op = [name |-> "kfree", arg |-> <<end + 2>>, note |-> <<>>]
  /\ kmem.use_lock = 1
  /\ FreeSet(Cur) # {}
  /\ \E i \in RefIdx : pmem.refcount[i] > 0

\* C8: of N + 1 kalloc calls in a row made with N pages in the free list, the
\* first N return a page and the last returns null; a kalloc that returns
\* null leaves the (empty) list, the counter (0), the table, the pages and
\* the lock as they were; and the kalloc that directly follows a kfree that
\* released a page returns a page.
C8_Step ==
  op'.name = "kalloc" =>
    /\ ret' # NULL <=> streak'.n <= streak'.base
    /\ ret' = NULL =>
         /\ kmem' = kmem
         /\ kmem'.freelist = NULL
         /\ kmem'.lock = 0
         /\ pmem' = pmem
         /\ pmem'.num_free_pages = 0
         /\ mem' = mem
    /\ (/\ op.name = "kfree" /\ panicked = ""
        /\ ValidPage(op.arg[1])
        /\ kmem.use_lock = 0 \/ pmem.refcount[IdxOf(op.arg[1])] = 0) =>
         ret' # NULL

C8_Exhaustion == [][C8_Step]_vars

C8_Witness ==
  /\ op.name = "kalloc" /\ ret = NULL
  /\ kmem.use_lock = 1
  /\ streak.base >= 2
  /\ streak.n = streak.base + 1

\* C9: the free list is the stack of the released pages: it holds them
\* once each, the last released first, kalloc returns the last released
\* page, and so the kalloc that directly follows a kfree that released a
\* page returns that page.
C9_Step ==
  /\ FreeSeq(Cur') = stack'
  /\ NoDup(stack')
  /\ op'.name = "kalloc" =>
       ret' = IF stack = <<>> THEN NULL ELSE Head(stack)
  /\ (/\ op'.name = "kalloc"
      /\ op.name = "kfree" /\ panicked = ""
      /\ ValidPage(op.arg[1])
      /\ kmem.use_lock = 0 \/ pmem.refcount[IdxOf(op.arg[1])] = 0) =>
       ret' = op.arg[1]

C9_StackOrder == [][C9_Step]_vars

C9_Witness ==
  /\ op.name = "kalloc" /\ ret # NULL
  /\ streak.base >= 3
  /\ streak.n = streak.base
  /\ FreeSet(Cur) = {}

\* C10: every page in the free list, and so every page kalloc returns, is
\* page aligned, at or above end, and has a physical address below PHYSTOP,
\* which puts its index inside the reference-count table.
C10_ValidPages ==
  /\ Acyclic(Cur)
  /\ \A p \in FreeSet(Cur) :
       p % PGSIZE = 0 /\ p >= end /\ V2P(p) < PHYSTOP /\ IdxOf(p) \in RefIdx
  /\ (op.name = "kalloc" /\ ret # NULL) =>
       /\ ret % PGSIZE = 0 /\ ret >= end /\ V2P(ret) < PHYSTOP
       /\ IdxOf(ret) \in RefIdx

C10_Witness ==
  /\ op.name = "kalloc" /\ ret # NULL
  /\ phase = "run"
  /\ Cardinality(handled) >= 3

\* The contexts inside kfree(p) whose decrement of p's count is still to be
\* written, and those inside kalloc that have set p's count and not returned:
\* with the holders they are the owners of p.
Releasing(p) ==
  { c \in Contexts : /\ ctx[c].pc \in {"kf_acquire", "kf_test", "kf_read", "kf_write"}
                     /\ ctx[c].arg = p }
Receiving(p) == { c \in Contexts : ctx[c].pc = "ka_release" /\ ctx[c].r = p }
OwnersOf(p) == Owners(p) + Cardinality(Releasing(p)) + Cardinality(Receiving(p))

CountsMatchOwners ==
  /\ \A p \in Frames \ {KERNBASE} : pmem.refcount[IdxOf(p)] = OwnersOf(p)
  /\ \A p \in FreeSet(Cur) : OwnersOf(p) = 0
  /\ panicked # "kfree: refcount underflow"

\* C11 as stated: once locking is on, in every interleaving of kalloc, kfree
\* and inc_refcount (a read and a write) by contexts that share and free
\* only what they hold, the count of a page is its number of owners, no page
\* with an owner is in the free list and no kfree halts on underflow.
C11_EveryInterleaving == phase = "run" => CountsMatchOwners

\* C11: the same, in every interleaving in which no context writes a page's
\* count between the read and the write of another context's inc_refcount,
\* or of the decrement in another context's kfree, of that count.
C11_CoordinatedSharing == (phase = "run" /\ ~torn) => CountsMatchOwners

C11_Witness ==
  /\ ~torn
  /\ \E p \in Frames :
       /\ owns[1][p] = 1
       /\ pmem.refcount[IdxOf(p)] = 1
       /\ ctx[2].pc = "kf_release" /\ ctx[2].arg = p
  /\ ctx[1].pc = "inc_write"

\* Where a context is between acquire and release, and where its next step
\* reads or writes kmem.freelist, pmem.num_free_pages or pmem.refcount.
KallocSection == {"ka_head", "ka_pop", "ka_count", "ka_ref", "ka_release"}
KfreeSection ==
  {"kf_test", "kf_read", "kf_write", "kf_shared", "kf_poison", "kf_link",
   "kf_push", "kf_count", "kf_release"}
Accessing ==
  {"ka_head", "ka_pop", "ka_count", "ka_ref", "kf_test", "kf_read",
   "kf_write", "kf_shared", "kf_link", "kf_push", "kf_count"}
InSection == { c \in Contexts : ctx[c].pc \in KallocSection \cup KfreeSection }
InCall(c) == ctx[c].pc \in KallocSection \cup KfreeSection \cup {"ka_acquire", "kf_acquire"}

C12_Exclusion ==
  phase = "run" =>
    /\ Cardinality(InSection) <= 1
    /\ InSection = (IF cpu = 0 THEN {} ELSE {cpu})
    /\ kmem.lock = (IF cpu = 0 THEN 0 ELSE 1)

C12_Step ==
  \A c \in Contexts :
    /\ (ctx'[c] # ctx[c] /\ ctx[c].pc \in Accessing) =>
         cpu = c /\ kmem.lock = 1
    /\ (/\ ctx'[c] # ctx[c] /\ InCall(c)
        /\ kmem'.freelist # kmem.freelist \/ pmem' # pmem) =>
         cpu = c /\ kmem.lock = 1 /\ ctx[c].pc \in Accessing
    /\ (InCall(c) /\ ctx'[c].pc = "idle") =>
         cpu = c /\ cpu' = 0 /\ kmem'.lock = 0

\* C12: once locking is on, at most one context is between acquire and
\* release inside kalloc or kfree; kalloc and kfree read and write the list
\* head, the counter and the counts only while holding the lock; and the
\* lock is free when either returns, by whichever path.
C12_LockDiscipline == []C12_Exclusion /\ [][C12_Step]_vars

C12_Witness ==
  /\ ctx[1].pc = "kf_release"
  /\ pmem.refcount[IdxOf(ctx[1].arg)] > 0
  /\ ctx[2].pc = "ka_acquire"
  /\ kmem.lock = 1 /\ cpu = 1
  /\ kmem.freelist = NULL

\* What a seeding of the range r that kfree accepts in full does, whatever
\* the table holds: every page of the range is pushed by the path taken
\* while locking is off.
SeedsAll(r) ==
  /\ panicked' = ""
  /\ kmem'.lock = 0
  /\ FreeSeq(Cur') = Rev(SeedPages(r[1], r[2])) \o FreeSeq(Cur)
  /\ pmem'.num_free_pages = pmem.num_free_pages + Len(SeedPages(r[1], r[2]))
  /\ \A i \in DOMAIN SeedPages(r[1], r[2]) :
       mem'[SeedPages(r[1], r[2])[i]].rest = 1

C13_Step ==
  /\ (/\ op'.name = "kinit1"
      /\ ValidPrefix(SeedPages(op'.arg[1], op'.arg[2])) = SeedPages(op'.arg[1], op'.arg[2])) =>
       /\ SeedsAll(op'.arg)
       /\ kmem'.use_lock = 0
       /\ pmem'.refcount = pmem.refcount
  /\ (/\ op'.name = "kinit2"
      /\ ValidPrefix(SeedPages(op'.arg[1], op'.arg[2])) = SeedPages(op'.arg[1], op'.arg[2])) =>
       /\ SeedsAll(op'.arg)
       /\ kmem.use_lock = 0
       /\ kmem'.use_lock = 1
       /\ \A i \in RefIdx : pmem'.refcount[i] = 0
  /\ (op'.name \in {"kinit1", "kinit2"} /\ panicked' # "") =>
       /\ kmem'.use_lock = 0
       /\ pmem'.refcount = pmem.refcount

\* C13: kinit1 and kinit2 push every page of their range by the path taken
\* while locking is off, whatever the table holds; kinit1 leaves the flag off
\* and the table alone; kinit2 turns the flag on and clears the table after
\* its last push (a seeding that halts does neither), and on its return the
\* list and the counter hold what both phases seeded: the counter is not
\* reset.
C13_BootOrder == [][C13_Step]_vars

C13_Witness ==
  /\ op.name = "kinit2" /\ panicked = ""
  /\ kmem.use_lock = 1
  /\ Len(SeedPages(op.arg[1], op.arg[2])) >= 2
  /\ pmem.num_free_pages = 2
  /\ \E p \in Frames : Held(p) /\ Tracked(p) = FALSE
  /\ \A i \in RefIdx : pmem.refcount[i] = 0

C14_Step ==
  (/\ op'.name = "kfree"
   /\ kmem.use_lock = 0
   /\ ValidPage(op'.arg[1])) =>
    /\ panicked' = ""
    /\ pmem' = [pmem EXCEPT !.num_free_pages = @ + 1]
    /\ kmem' = [kmem EXCEPT !.freelist = op'.arg[1]]
    /\ kmem'.lock = 0
    /\ mem' = [mem EXCEPT ![op'.arg[1]] = [next |-> kmem.freelist, rest |-> 1]]

\* C14: while the locking flag is off, kfree of a valid address changes no
\* count, whatever the page's count is, and takes no lock: the page is
\* poisoned and pushed at the head of the list, the counter grows by 1, and
\* nothing else changes.
C14_UnlockedFree == [][C14_Step]_vars

C14_Witness ==
  /\ op.name = "kfree" /\ panicked = ""
  /\ kmem.use_lock = 0
  /\ kmem.freelist = op.arg[1]
  /\ pmem.refcount[IdxOf(op.arg[1])] = 2
  /\ Len(FreeSeq(Cur)) >= 2

\* The full pages of [vstart, vend) from the first page boundary on.
FullPages(vstart, vend) ==
  { q \in 0 .. (UintRange + PGSIZE) :
      /\ q >= PGROUNDUP(vstart)
      /\ (q - PGROUNDUP(vstart)) % PGSIZE = 0
      /\ q + PGSIZE <= vend }

\* The pages a step put at the front of the free list, the head first.
Pushed == SubSeq(FreeSeq(Cur'), 1, Len(FreeSeq(Cur')) - Len(FreeSeq(Cur)))

C15_Step ==
  op'.name \in {"kinit1", "kinit2"} =>
    LET full == FullPages(op'.arg[1], op'.arg[2]) IN
    /\ FreeSeq(Cur') = Pushed \o FreeSeq(Cur)
    /\ \A i \in 1 .. (Len(Pushed) - 1) : Pushed[i] = Pushed[i + 1] + PGSIZE
    /\ \A i \in DOMAIN Pushed : Pushed[i] \in full
    /\ pmem'.num_free_pages = pmem.num_free_pages + Len(Pushed)
    /\ \A q \in Frames : q \notin full => mem'[q] = mem[q]
    /\ panicked' = "" => Len(Pushed) = Cardinality(full)
    /\ panicked' # "" => \E q \in full : ~ValidPage(q)
    /\ full = {} =>
         /\ panicked' = ""
         /\ mem' = mem
         /\ kmem'.freelist = kmem.freelist /\ kmem'.lock = kmem.lock
         /\ pmem'.num_free_pages = pmem.num_free_pages
         /\ op'.name = "kinit1" => (kmem' = kmem /\ pmem' = pmem)

\* C15: a seeding of [vstart, vend) pushes the pages PGROUNDUP(vstart) +
\* i * PGSIZE that end at or before vend, in increasing address order, and
\* no other page: the bytes before the first boundary and a trailing partial
\* page are left alone, the counter grows by the number of pages pushed, and
\* a range with no full page pushes nothing, changes nothing and does not
\* halt.  (A seeding halts only at a page of the range that kfree rejects.)
C15_SeedRange == [][C15_Step]_vars

C15_Witness ==
  /\ op.name = "kinit2" /\ panicked = ""
  /\ op.arg = <<end + 2, end + 6>>
  /\ kmem.freelist = end + 3
  /\ mem[end + 3].next = end + 1
  /\ pmem.num_free_pages = 2
  /\ end + 5 \notin FreeSet(Cur)

\* Machine n is machine m with d added to the count of the page that holds
\* pa, as a uint, and nothing else of the allocator changed.
OnlyCount(m, n, pa, d) ==
  /\ n.kmem = m.kmem
  /\ n.mem = m.mem
  /\ n.panicked = m.panicked
  /\ n.pmem.num_free_pages = m.pmem.num_free_pages
  /\ \A i \in RefIdx :
       n.pmem.refcount[i] =
         IF i = IdxOf(PageOf(pa)) THEN (m.pmem.refcount[i] + d) % UintRange
         ELSE m.pmem.refcount[i]

C16_Step ==
  /\ op'.name = "inc_refcount" =>
       OnlyCount(Cur, Cur', op'.arg[1], 1) /\ FreeSeq(Cur') = FreeSeq(Cur)
  /\ op'.name = "dec_refcount" =>
       OnlyCount(Cur, Cur', op'.arg[1], 0 - 1) /\ FreeSeq(Cur') = FreeSeq(Cur)

\* The same of the three accessors called in the current state, with any
\* address and any count.
C16_AnyCall ==
  \A pa \in AccessArgs :
       /\ OnlyCount(Cur, get_refcount(Cur, pa), pa, 0)
       /\ get_refcount(Cur, pa).ret = pmem.refcount[IdxOf(PageOf(pa))]
       /\ \A pb \in AccessArgs :
            PageOf(pb) = PageOf(pa) =>
              get_refcount(Cur, pb).ret = get_refcount(Cur, pa).ret
       /\ OnlyCount(Cur, inc_refcount(Cur, pa), pa, 1)
       /\ OnlyCount(Cur, dec_refcount(Cur, pa), pa, 0 - 1)

\* C16: get_refcount(pa) changes nothing and returns the count of the page
\* that holds pa; inc_refcount(pa) adds 1 to that count and dec_refcount(pa)
\* subtracts 1 from it, as a uint, with no test and no halt; the free list,
\* the counter, the other counts, the pages and the lock stay as they were.
C16_RawAccessors == []C16_AnyCall /\ [][C16_Step]_vars

C16_Witness ==
  /\ op.name = "dec_refcount" /\ panicked = ""
  /\ kmem.use_lock = 1
  /\ Held(PageOf(op.arg[1]))
  /\ op.arg[1] % PGSIZE # 0
  /\ get_refcount(Cur, op.arg[1]).ret = 0
  /\ get_refcount(dec_refcount(Cur, op.arg[1]), op.arg[1]).ret = UintRange - 1

\* C17 as stated: kalloc writes nothing into the page it returns, and every
\* byte of that page is the poison byte 1.
C17_AllPoisonStep ==
  (op'.name = "kalloc" /\ ret' # NULL) =>
    /\ mem' = mem
    /\ mem'[ret'] = [next |-> WordOf(1), rest |-> 1]

C17_AllPoison == [][C17_AllPoisonStep]_vars

C17_Step ==
  (op'.name = "kalloc" /\ ret' # NULL) =>
    /\ mem' = mem
    /\ mem'[ret'].rest = 1
    /\ mem'[ret'].next = kmem'.freelist
    /\ mem'[ret'].next # WordOf(1)

\* C17: kalloc writes nothing into the page it returns: the page is as the
\* kfree that released it left it, its first word the link to the page
\* freed before it (the rest of the free list, or null) and every byte
\* after that word the poison byte 1.
C17_PoisonAfterLink == [][C17_Step]_vars

C17_Witness ==
  /\ op.name = "kalloc" /\ ret # NULL
  /\ kmem.use_lock = 1
  /\ mem[ret].rest = 1
  /\ mem[ret].next = kmem.freelist
  /\ kmem.freelist # NULL
  /\ op.note = <<0>>

\* The steps a context has left before it releases the lock.
StepsLeft(pc) ==
  CASE pc = "kf_test" -> 9
    [] pc = "kf_read" -> 8
    [] pc = "kf_write" -> 7
    [] pc = "kf_shared" -> 6
    [] pc \in {"kf_poison", "ka_head"} -> 5
    [] pc \in {"kf_link", "ka_pop"} -> 4
    [] pc \in {"kf_push", "ka_count"} -> 3
    [] pc \in {"kf_count", "ka_ref"} -> 2
    [] pc \in {"kf_release", "ka_release"} -> 1
    [] OTHER -> 0

Waiting == { c \in Contexts : ctx[c].pc \in {"ka_acquire", "kf_acquire"} }

C18_NoWait ==
  \A c \in Contexts :
    (panicked = "" /\ c \in InSection) => ENABLED Proceed(c)

C18_NoDeadlock ==
  (panicked = "" /\ \E c \in Contexts : InCall(c)) =>
    ENABLED (\E c \in Contexts : Proceed(c))

C18_Step ==
  \A c \in Contexts :
    (ctx'[c] # ctx[c] /\ c \in InSection) =>
      StepsLeft(ctx'[c].pc) < StepsLeft(ctx[c].pc)

\* C18: a context that holds the lock has no wait and no loop before its
\* release: its next step can always be taken and leaves it fewer steps, 9
\* at most in kfree and 5 in kalloc, unless it halts on underflow.  So, with
\* contexts that keep taking steps, a lock that is held is released unless
\* the system halts, the callers never all wait, and while some caller
\* waits for a free lock one of the callers gets it.
C18_BoundedSections ==
  /\ []C18_NoWait
  /\ []C18_NoDeadlock
  /\ [][C18_Step]_vars
  /\ \A c \in Contexts : (cpu = c) ~> (cpu # c \/ panicked # "")
  /\ (Waiting # {} /\ cpu = 0) ~> (cpu # 0 \/ panicked # "")

C18_Witness ==
  /\ ctx[1].pc = "kf_count"
  /\ ctx[2].pc = "ka_acquire"
  /\ cpu = 1 /\ kmem.lock = 1
  /\ panicked = ""

C19_State ==
  (phase = "run" /\ ~torn) =>
    /\ Acyclic(Cur)
    /\ ~refreed
    /\ \A p \in Frames :
         OwnersOf(p) >= 1 => (p \notin FreeSet(Cur) /\ pmem.refcount[IdxOf(p)] >= 1)

C19_Step ==
  \A c \in Contexts : ~torn =>
    /\ (ctx[c].pc = "ka_pop" /\ ctx'[c] # ctx[c]) =>
         /\ pmem.refcount[IdxOf(ctx[c].r)] = 0
         /\ OwnersOf(ctx[c].r) = 0
         /\ ctx[c].r \in FreeSet(Cur)
         /\ ctx[c].r \notin FreeSet(Cur')
    /\ (ctx[c].pc = "ka_release" /\ ctx'[c].pc = "idle" /\ ctx[c].r # NULL) =>
         /\ Owners(ctx[c].r) = 0
         /\ owns'[c][ctx[c].r] = 1
         /\ pmem.refcount[IdxOf(ctx[c].r)] = 1
    /\ (ctx[c].pc = "kf_push" /\ ctx'[c] # ctx[c]) =>
         /\ ctx[c].arg \notin FreeSet(Cur)
         /\ OwnersOf(ctx[c].arg) = 0
         /\ pmem.refcount[IdxOf(ctx[c].arg)] = 0

\* C19: with disjoint boot ranges and contexts that call kalloc and kfree,
\* kfree only on a page they hold, the free list never holds a page twice
\* nor a page that a caller holds; the count of a held page is 1 or more,
\* kfree pushes and kalloc takes only a page that nobody holds and whose
\* count is back at 0: kalloc never returns a page again before its release.
\* (Checked with pages shared through inc_refcount as well, as long as no
\* count is torn.)
C19_NoDoubleHandout == []C19_State /\ [][C19_Step]_vars

C19_Witness ==
  /\ ~torn
  /\ \A i \in RefIdx : pmem.refcount[i] <= 1
  /\ ctx[2].pc = "ka_release" /\ ctx[2].r # NULL
  /\ ctx[1].pc = "kf_acquire"
  /\ ctx[1].arg # ctx[2].r
  /\ FreeSet(Cur) = {}
  /\ handled = {ctx[1].arg, ctx[2].r}

\* The contexts between their write of the list head and their write of the
\* counter, in kfree and in kalloc.
Pushing == { c \in Contexts : ctx[c].pc = "kf_count" }
Popping == { c \in Contexts : ctx[c].pc = "ka_count" }

C20_State ==
  (phase = "run" /\ ~torn) =>
    /\ kmem.lock = 0 => pmem.num_free_pages = Len(FreeSeq(Cur))
    /\ pmem.num_free_pages # Len(FreeSeq(Cur)) => Pushing \cup Popping # {}
    /\ pmem.num_free_pages =
         Len(FreeSeq(Cur)) - Cardinality(Pushing) + Cardinality(Popping)

C20_Step ==
  \A c \in Contexts :
    (~torn /\ ctx[c].pc = "idle" /\ ctx'[c].pc = "fm_return") =>
      /\ ctx'[c].tmp = pmem.num_free_pages
      /\ \/ ctx'[c].tmp = Len(FreeSeq(Cur))
         \/ Pushing # {} /\ ctx'[c].tmp = Len(FreeSeq(Cur)) - 1
         \/ Popping # {} /\ ctx'[c].tmp = Len(FreeSeq(Cur)) + 1
      /\ UNCHANGED <<kmem, pmem, mem>>

\* C20: once locking is on, whenever the lock is free the counter is the
\* length of the free list; the two differ only while a context is between
\* its write of the list head and its write of the counter; so freemem,
\* which reads the counter without the lock, returns the length of the list
\* as it is, or as it was just before the kalloc or kfree that is at that
\* point.
C20_CounterTracksList == []C20_State /\ [][C20_Step]_vars

C20_Witness ==
  /\ ~torn
  /\ ctx[1].pc = "fm_return"
  /\ ctx[2].pc = "kf_count"
  /\ ctx[1].tmp = 0
  /\ Len(FreeSeq(Cur)) = 1

====
